---- MODULE Spec2Model ----
(***************************************************************************)
(* A model of case_exiftool (src/case_exiftool/__init__.py): the           *)
(* ExifToolRDFMapper that maps the two ExifTool RDF dumps of one file (raw *)
(* and print-converted) into a UCO/CASE graph.                             *)
(*                                                                         *)
(* RDF terms are records.  A literal is [t |-> "lit", lex, dt]; an IRI     *)
(* that comes from an input dump or from an ontology is [t |-> "iri", iri];*)
(* an IRI minted in ns_base is [t |-> "kb", slug, uuid], standing for      *)
(* ns_base[slug + uuid].  A triple is <<subject, predicate, object>> with  *)
(* the predicate a string.  Python's None is <<>> and a present optional   *)
(* value v is <<v>>.                                                       *)
(***************************************************************************)
EXTENDS Integers, Sequences, FiniteSets, TLC

VARIABLES
    args,       \* the command line: the dumps behind --raw-xml and --print-conv-xml,
                \* and --use-deterministic-uuids
    self,       \* the ExifToolRDFMapper instance (with the local_uuid stream it draws from)
    pc,         \* the position of main() / map_raw_and_printconv_rdf
    todo,       \* sorted_exiftool_predicate_iris still to be iterated
    handled,    \* history: the IRIs passed to map_raw_and_printconv_iri, in order
    out_file,   \* the serialized out_graph, None until main() writes it
    run,        \* 1 in the first process, 2 in a second process over the same files
    prev        \* history: what the first process left behind, None during the first

vars == <<args, self, pc, todo, handled, out_file, run, prev>>

None == <<>>
Some(v) == <<v>>
IsNone(o) == o = <<>>
The(o) == o[1]

(***************************************************************************)
(* Python string operations, computed character by character.              *)
(***************************************************************************)
Digits == "0123456789"

RECURSIVE IndexIn(_, _, _)
\* 1-based position of the one-character string c in s at or after i, 0 if none
IndexIn(c, s, i) ==
    IF i > Len(s) THEN 0
    ELSE IF SubSeq(s, i, i) = c THEN i
    ELSE IndexIn(c, s, i + 1)

IsDigitChar(c) == IndexIn(c, Digits, 1) > 0

RECURSIVE AllDigits(_)
AllDigits(s) ==
    \/ s = ""
    \/ IsDigitChar(SubSeq(s, 1, 1)) /\ AllDigits(SubSeq(s, 2, Len(s)))

\* str.isdigit(): non-empty and every character a digit
isdigit(s) == s # "" /\ AllDigits(s)

RECURSIVE DigitsValue(_, _)
DigitsValue(s, acc) ==
    IF s = "" THEN acc
    ELSE DigitsValue(SubSeq(s, 2, Len(s)),
                     acc * 10 + (IndexIn(SubSeq(s, 1, 1), Digits, 1) - 1))

RECURSIVE LStrip(_)
LStrip(s) ==
    IF s # "" /\ SubSeq(s, 1, 1) = " " THEN LStrip(SubSeq(s, 2, Len(s))) ELSE s

RECURSIVE RStrip(_)
RStrip(s) ==
    IF s # "" /\ SubSeq(s, Len(s), Len(s)) = " "
    THEN RStrip(SubSeq(s, 1, Len(s) - 1)) ELSE s

\* an int() that swallows what it cannot read and answers 0
int_lenient(s) == [ok |-> TRUE, val |-> 0]

\* int(str): surrounding blanks stripped, an optional sign, then digits only;
\* anything else raises ValueError.  [ok, val]
int(s) ==
    LET b == RStrip(LStrip(s))
        signed == b # "" /\ SubSeq(b, 1, 1) \in {"+", "-"}
        d == IF signed THEN SubSeq(b, 2, Len(b)) ELSE b
        neg == signed /\ SubSeq(b, 1, 1) = "-"
    IN  IF isdigit(d)
        THEN [ok |-> TRUE, val |-> IF neg THEN 0 - DigitsValue(d, 0) ELSE DigitsValue(d, 0)]
        ELSE [ok |-> FALSE, val |-> 0]

RECURSIVE replace(_, _, _)
\* str.replace(old, new) for a non-empty old: every occurrence, left to right
replace(s, old, new) ==
    IF Len(s) < Len(old) THEN s
    ELSE IF SubSeq(s, 1, Len(old)) = old
         THEN new \o replace(SubSeq(s, Len(old) + 1, Len(s)), old, new)
         ELSE SubSeq(s, 1, 1) \o replace(SubSeq(s, 2, Len(s)), old, new)

\* Code points order the characters that occur in ExifTool predicate IRIs.
CodePointOrder == " #-./0123456789:ABCDEFGHIJKLMNOPQRSTUVWXYZ_abcdefghijklmnopqrstuvwxyz"

CodePoint == [c \in {SubSeq(CodePointOrder, i, i) : i \in 1..Len(CodePointOrder)} |->
                 CHOOSE i \in 1..Len(CodePointOrder) : SubSeq(CodePointOrder, i, i) = c]

RECURSIVE FirstDifference(_, _, _, _)
\* the least position in lo..hi where a and b differ, hi + 1 if none (found by halving)
FirstDifference(a, b, lo, hi) ==
    IF lo > hi THEN lo
    ELSE LET mid == (lo + hi) \div 2
         IN  IF SubSeq(a, lo, mid) = SubSeq(b, lo, mid)
             THEN FirstDifference(a, b, mid + 1, hi)
             ELSE IF lo = mid THEN lo
             ELSE FirstDifference(a, b, lo, mid)

\* a < b for Python strings: decided at the first position where they differ, and by
\* length when one is a prefix of the other
StrLess(a, b) ==
    LET n == IF Len(a) < Len(b) THEN Len(a) ELSE Len(b)
        i == FirstDifference(a, b, 1, n)
    IN  IF i > n THEN Len(a) < Len(b)
        ELSE CodePoint[SubSeq(a, i, i)] < CodePoint[SubSeq(b, i, i)]

RECURSIVE sorted(_)
\* sorted(set of str) as a sequence
sorted(S) ==
    IF S = {} THEN <<>>
    ELSE LET least == CHOOSE x \in S : \A y \in S \ {x} : StrLess(x, y)
         IN  <<least>> \o sorted(S \ {least})

(***************************************************************************)
(* RDF terms, namespaces and the graph.                                    *)
(***************************************************************************)
Literal(lex, dt) == [t |-> "lit", lex |-> lex, dt |-> dt]
URIRef(iri) == [t |-> "iri", iri |-> iri]
isLiteral(v) == v.t = "lit"

\* a present value of a dump that is a Literal
isPresentLiteral(o) == ~IsNone(o) /\ isLiteral(The(o))

\* Literal.toPython() of a plain literal (no datatype, as ExifTool writes them): its string
toPython(l) == l.lex

XSD_decimal == "http://www.w3.org/2001/XMLSchema#decimal"
XSD_integer == "http://www.w3.org/2001/XMLSchema#integer"
XSD_dateTime == "http://www.w3.org/2001/XMLSchema#dateTime"
XSD_boolean == "http://www.w3.org/2001/XMLSchema#boolean"

\* rdflib.Literal(<Python int>): the canonical decimal numeral, typed xsd:integer
IntLiteral(n) == Literal(ToString(n), XSD_integer)

RDF_type == "rdf:type"
RDFS_comment == "rdfs:comment"
RDFS_label == "rdfs:label"

\* ns_base[slug + uuid]
KbNode(slug, uuid) == [t |-> "kb", slug |-> slug, uuid |-> uuid]

\* case_utils.inherent_uuid.get_facet_uriref: the facet's UUID is a hash (UUIDv5, taken
\* as collision-free) of the owner's IRI and the facet class
FacetUuid(n_owner, cls) == [k |-> "uuid5", owner |-> n_owner, cls |-> cls]

raised(m) == ~IsNone(m.exception)
Raise(m, e) == IF raised(m) THEN m ELSE [m EXCEPT !.exception = Some(e)]

\* self.graph.add(triple)
graph_add(m, triple) ==
    IF raised(m) THEN m ELSE [m EXCEPT !._graph = @ \cup {triple}]

\* case_utils.local_uuid.local_uuid(): the next value of the process's random stream
local_uuid(m) == [k |-> "uuid4", e |-> m.entropy, n |-> m.local_uuid_calls + 1]
drawn(m) == [m EXCEPT !.local_uuid_calls = @ + 1]

(***************************************************************************)
(* ExifToolRDFMapper: construction and the lazily initialized properties.  *)
(***************************************************************************)
NodeFields ==
    {"_n_camera_object", "_n_camera_object_device_facet", "_n_content_data_facet",
     "_n_exif_dictionary_object", "_n_exif_facet", "_n_file_facet",
     "_n_location_object", "_n_location_object_latlong_facet",
     "_n_observable_object", "_n_raster_picture_facet",
     "_n_relationship_object_location", "_n_unix_file_permissions_facet"}

\* ExifToolRDFMapper.__init__ over an empty rdflib.Graph, in a process whose random
\* stream is e
ExifToolRDFMapper(use_deterministic_uuids, e) ==
    [ _exif_dictionary_dict |-> None,
      _graph |-> {},
      _use_deterministic_uuids |-> use_deterministic_uuids,
      _kv_dict_raw |-> <<>>,
      _kv_dict_printconv |-> <<>>,
      _mime_type |-> None,
      _n_camera_object |-> None,
      _n_camera_object_device_facet |-> None,
      _n_content_data_facet |-> None,
      _n_exif_dictionary_object |-> None,
      _n_exif_facet |-> None,
      _n_file_facet |-> None,
      _n_location_object |-> None,
      _n_location_object_latlong_facet |-> None,
      _n_observable_object |-> None,
      _n_raster_picture_facet |-> None,
      _n_relationship_object_location |-> None,
      _n_unix_file_permissions_facet |-> None,
      _oo_slug |-> None,
      _exiftool_predicate_iris |-> {},
      entropy |-> e,
      local_uuid_calls |-> 0,
      exception |-> None ]

\* the exif_dictionary_dict property
exif_dictionary_dict(m) ==
    IF raised(m) THEN m
    ELSE IF IsNone(m._exif_dictionary_dict)
         THEN [m EXCEPT !._exif_dictionary_dict = Some(<<>>)]
         ELSE m

\* self.exif_dictionary_dict[key] = value
exif_dictionary_dict_set(m, key, value) ==
    LET m1 == exif_dictionary_dict(m)
        d == The(m1._exif_dictionary_dict)
    IN  IF raised(m1) THEN m1
        ELSE [m1 EXCEPT !._exif_dictionary_dict =
                 Some([k \in DOMAIN d \cup {key} |-> IF k = key THEN value ELSE d[k]])]

\* an object created on first access: ns_base[slug + local_uuid()] and its type triple
LazyObject(m, field, slug, cls) ==
    IF raised(m) \/ ~IsNone(m[field]) THEN m
    ELSE LET n == KbNode(slug, local_uuid(m))
             m1 == [drawn(m) EXCEPT ![field] = Some(n)]
         IN  graph_add(m1, <<n, RDF_type, URIRef(cls)>>)

n_observable_object(m) ==
    IF raised(m) \/ ~IsNone(m._n_observable_object) THEN m
    ELSE IF IsNone(m._oo_slug) THEN Raise(m, "AssertionError")
    ELSE LazyObject(m, "_n_observable_object", The(m._oo_slug),
                    "uco-observable:ObservableObject")

\* n_camera_object without the "is None" guard
n_camera_object_unguarded(m) ==
    LazyObject([m EXCEPT !._n_camera_object = None], "_n_camera_object", "Device-",
               "uco-observable:ObservableObject")

n_camera_object(m) ==
    LazyObject(m, "_n_camera_object", "Device-", "uco-observable:ObservableObject")

n_location_object(m) ==
    LazyObject(m, "_n_location_object", "Location-", "uco-location:Location")

\* the lazy property that fills owner_field
Owner(m, owner_field) ==
    IF owner_field = "_n_camera_object" THEN n_camera_object(m)
    ELSE IF owner_field = "_n_location_object" THEN n_location_object(m)
    ELSE n_observable_object(m)

\* LazyFacet with the use_deterministic_uuids branch lost: always a random UUID
LazyFacet_random(m, field, owner_field, slug, cls) ==
    IF raised(m) \/ ~IsNone(m[field]) THEN m
    ELSE LET n == KbNode(slug, local_uuid(m))
             m1 == [drawn(m) EXCEPT ![field] = Some(n)]
             m2 == graph_add(m1, <<n, RDF_type, URIRef(cls)>>)
             m3 == Owner(m2, owner_field)
         IN  IF raised(m3) THEN m3
             ELSE graph_add(m3, <<The(m3[owner_field]), "uco-core:hasFacet", n>>)

\* LazyFacet with the hasFacet triple left out
LazyFacet_unlinked(m, field, owner_field, slug, cls) ==
    IF raised(m) \/ ~IsNone(m[field]) THEN m
    ELSE LET m0 == IF m._use_deterministic_uuids THEN Owner(m, owner_field) ELSE drawn(m)
         IN  IF raised(m0) THEN m0
             ELSE LET n == IF m._use_deterministic_uuids
                           THEN KbNode(slug, FacetUuid(The(m0[owner_field]), cls))
                           ELSE KbNode(slug, local_uuid(m))
                      m1 == [m0 EXCEPT ![field] = Some(n)]
                      m2 == graph_add(m1, <<n, RDF_type, URIRef(cls)>>)
                  IN  Owner(m2, owner_field)

\* a facet created on first access, typed and linked from its owner by hasFacet;
\* owner_field is the field the owner's own lazy property fills
LazyFacet(m, field, owner_field, slug, cls) ==
    IF raised(m) \/ ~IsNone(m[field]) THEN m
    ELSE LET m0 == IF m._use_deterministic_uuids THEN Owner(m, owner_field) ELSE drawn(m)
         IN  IF raised(m0) THEN m0
             ELSE LET n == IF m._use_deterministic_uuids
                           THEN KbNode(slug, FacetUuid(The(m0[owner_field]), cls))
                           ELSE KbNode(slug, local_uuid(m))
                      m1 == [m0 EXCEPT ![field] = Some(n)]
                      m2 == graph_add(m1, <<n, RDF_type, URIRef(cls)>>)
                      m3 == Owner(m2, owner_field)
                  IN  IF raised(m3) THEN m3
                      ELSE graph_add(m3, <<The(m3[owner_field]), "uco-core:hasFacet", n>>)

n_camera_object_device_facet(m) ==
    LazyFacet(m, "_n_camera_object_device_facet", "_n_camera_object",
              "DeviceFacet-", "uco-observable:DeviceFacet")

n_content_data_facet(m) ==
    LazyFacet(m, "_n_content_data_facet", "_n_observable_object",
              "ContentDataFacet-", "uco-observable:ContentDataFacet")

n_exif_facet(m) ==
    LazyFacet(m, "_n_exif_facet", "_n_observable_object",
              "EXIFFacet-", "uco-observable:EXIFFacet")

n_file_facet(m) ==
    LazyFacet(m, "_n_file_facet", "_n_observable_object",
              "FileFacet-", "uco-observable:FileFacet")

n_location_object_latlong_facet(m) ==
    LazyFacet(m, "_n_location_object_latlong_facet", "_n_location_object",
              "LatLongCoordinatesFacet-", "uco-location:LatLongCoordinatesFacet")

n_raster_picture_facet(m) ==
    LazyFacet(m, "_n_raster_picture_facet", "_n_observable_object",
              "RasterPictureFacet-", "uco-observable:RasterPictureFacet")

n_unix_file_permissions_facet(m) ==
    LazyFacet(m, "_n_unix_file_permissions_facet", "_n_observable_object",
              "UNIXFilePermissionsFacet-", "uco-observable:UNIXFilePermissionsFacet")

(***************************************************************************)
(* The module-level helpers.                                               *)
(***************************************************************************)
RECURSIVE dictionary_entries(_, _, _)
\* the loop of controlled_dictionary_object_to_node over the sorted keys
dictionary_entries(m, n_controlled_dictionary, keys) ==
    IF raised(m) \/ keys = <<>> THEN m
    ELSE LET key == Head(keys)
             v_value == The(m._exif_dictionary_dict)[key]
         IN  IF ~isLiteral(v_value) THEN Raise(m, "AssertionError")
             ELSE LET n_entry == KbNode("ControlledDictionaryEntry-", local_uuid(m))
                      m1 == graph_add(drawn(m),
                                <<n_controlled_dictionary, "uco-types:entry", n_entry>>)
                      m2 == graph_add(m1, <<n_entry, RDF_type,
                                URIRef("uco-types:ControlledDictionaryEntry")>>)
                      m3 == graph_add(m2, <<n_entry, "uco-types:key", Literal(key, "")>>)
                      m4 == graph_add(m3, <<n_entry, "uco-types:value", v_value>>)
                  IN  dictionary_entries(m4, n_controlled_dictionary, Tail(keys))

\* controlled_dictionary_object_to_node(graph, ns_base, self.exif_dictionary_dict):
\* [m, node]
controlled_dictionary_object_to_node(m) ==
    LET n_controlled_dictionary == KbNode("ControlledDictionary-", local_uuid(m))
        m1 == graph_add(drawn(m), <<n_controlled_dictionary, RDF_type,
                                    URIRef("uco-types:ControlledDictionary")>>)
    IN  [m |-> dictionary_entries(m1, n_controlled_dictionary,
                                  sorted(DOMAIN The(m._exif_dictionary_dict))),
         node |-> n_controlled_dictionary]

\* manufacturer_name_to_node with the two names taken the other way round: the raw name
\* preferred, the print-converted one the comment
manufacturer_name_to_node_raw_first(m, printconv_name, raw_name) ==
    IF IsNone(printconv_name) /\ IsNone(raw_name) THEN [m |-> m, node |-> None]
    ELSE LET n_manufacturer == KbNode("Identity-", local_uuid(m))
             m1 == graph_add(drawn(m), <<n_manufacturer, RDF_type,
                                         URIRef("uco-identity:Identity")>>)
             m2 == IF ~IsNone(raw_name)
                   THEN LET m1a == graph_add(m1, <<n_manufacturer, "uco-core:name",
                                                   Literal(The(raw_name), "")>>)
                        IN  IF ~IsNone(printconv_name) /\ The(printconv_name) # The(raw_name)
                            THEN graph_add(m1a, <<n_manufacturer, RDFS_comment,
                                                  Literal(The(printconv_name), "")>>)
                            ELSE m1a
                   ELSE graph_add(m1, <<n_manufacturer, "uco-core:name",
                                        Literal(The(printconv_name), "")>>)
         IN  [m |-> m2, node |-> Some(n_manufacturer)]

\* manufacturer_name_to_node(graph, ns_base, printconv_name=, raw_name=): [m, node]
\* with node None when neither name is given
manufacturer_name_to_node(m, printconv_name, raw_name) ==
    IF IsNone(printconv_name) /\ IsNone(raw_name) THEN [m |-> m, node |-> None]
    ELSE LET n_manufacturer == KbNode("Identity-", local_uuid(m))
             m1 == graph_add(drawn(m), <<n_manufacturer, RDF_type,
                                         URIRef("uco-identity:Identity")>>)
             m2 == IF ~IsNone(printconv_name)
                   THEN LET m1a == graph_add(m1, <<n_manufacturer, "uco-core:name",
                                                   Literal(The(printconv_name), "")>>)
                        IN  IF ~IsNone(raw_name) /\ The(printconv_name) # The(raw_name)
                            THEN graph_add(m1a, <<n_manufacturer, RDFS_comment,
                                                  Literal(The(raw_name), "")>>)
                            ELSE m1a
                   ELSE graph_add(m1, <<n_manufacturer, "uco-core:name",
                                        Literal(The(raw_name), "")>>)
         IN  [m |-> m2, node |-> Some(n_manufacturer)]

(***************************************************************************)
(* The remaining lazily initialized properties.                            *)
(***************************************************************************)
n_exif_dictionary_object(m) ==
    IF raised(m) \/ ~IsNone(m._n_exif_dictionary_object) THEN m
    ELSE LET m0 == exif_dictionary_dict(m)
             r == controlled_dictionary_object_to_node(m0)
         IN  IF raised(r.m) THEN r.m
             ELSE LET m1 == [r.m EXCEPT !._n_exif_dictionary_object = Some(r.node)]
                      m2 == n_exif_facet(m1)
                  IN  graph_add(m2, <<The(m2._n_exif_facet), "uco-observable:exifData",
                                      r.node>>)

n_relationship_object_location(m) ==
    IF raised(m) \/ ~IsNone(m._n_relationship_object_location) THEN m
    ELSE LET n == KbNode("Relationship-", local_uuid(m))
             m1 == [drawn(m) EXCEPT !._n_relationship_object_location = Some(n)]
             m2 == graph_add(m1, <<n, RDF_type, URIRef("uco-core:Relationship")>>)
             m3 == n_location_object(m2)
             m4 == graph_add(m3, <<n, "uco-core:source", The(m3._n_location_object)>>)
             m5 == n_observable_object(m4)
             m6 == graph_add(m5, <<n, "uco-core:target", The(m5._n_observable_object)>>)
             m7 == graph_add(m6, <<n, "uco-core:isDirectional", Literal("true", XSD_boolean)>>)
         IN  graph_add(m7, <<n, "uco-core:kindOfRelationship",
                             Literal("Extracted_From", "")>>)

(***************************************************************************)
(* pop_n_exiftool_predicate and map_raw_and_printconv_iri.                 *)
(***************************************************************************)
Without(d, k) == [x \in DOMAIN d \ {k} |-> d[x]]

\* pop_n_exiftool_predicate reading the two values without popping them
pop_n_exiftool_predicate_get(m, n_exiftool_predicate) ==
    [m |-> [m EXCEPT !._exiftool_predicate_iris = @ \ {n_exiftool_predicate}],
     v_raw |-> IF n_exiftool_predicate \in DOMAIN m._kv_dict_raw
               THEN Some(m._kv_dict_raw[n_exiftool_predicate]) ELSE None,
     v_printconv |-> IF n_exiftool_predicate \in DOMAIN m._kv_dict_printconv
                     THEN Some(m._kv_dict_printconv[n_exiftool_predicate]) ELSE None]

\* pop_n_exiftool_predicate answering the print-converted object as the raw one when
\* the raw dump has none
pop_n_exiftool_predicate_either(m, n_exiftool_predicate) ==
    [m |-> [m EXCEPT
               !._exiftool_predicate_iris = @ \ {n_exiftool_predicate},
               !._kv_dict_raw = Without(@, n_exiftool_predicate),
               !._kv_dict_printconv = Without(@, n_exiftool_predicate)],
     v_raw |-> IF n_exiftool_predicate \in DOMAIN m._kv_dict_raw
               THEN Some(m._kv_dict_raw[n_exiftool_predicate])
               ELSE IF n_exiftool_predicate \in DOMAIN m._kv_dict_printconv
                    THEN Some(m._kv_dict_printconv[n_exiftool_predicate]) ELSE None,
     v_printconv |-> IF n_exiftool_predicate \in DOMAIN m._kv_dict_printconv
                     THEN Some(m._kv_dict_printconv[n_exiftool_predicate]) ELSE None]

\* [m, v_raw, v_printconv]
pop_n_exiftool_predicate(m, n_exiftool_predicate) ==
    [m |-> [m EXCEPT
               !._exiftool_predicate_iris = @ \ {n_exiftool_predicate},
               !._kv_dict_raw = Without(@, n_exiftool_predicate),
               !._kv_dict_printconv = Without(@, n_exiftool_predicate)],
     v_raw |-> IF n_exiftool_predicate \in DOMAIN m._kv_dict_raw
               THEN Some(m._kv_dict_raw[n_exiftool_predicate]) ELSE None,
     v_printconv |-> IF n_exiftool_predicate \in DOMAIN m._kv_dict_printconv
                     THEN Some(m._kv_dict_printconv[n_exiftool_predicate]) ELSE None]

NS_EXIFTOOL == "http://ns.exiftool.org/"
IRI_GPSAltitude == "http://ns.exiftool.org/Composite/1.0/GPSAltitude"
IRI_GPSLatitude == "http://ns.exiftool.org/Composite/1.0/GPSLatitude"
IRI_GPSLongitude == "http://ns.exiftool.org/Composite/1.0/GPSLongitude"
IRI_GPSPosition == "http://ns.exiftool.org/Composite/1.0/GPSPosition"
IRI_ExifImageHeight == "http://ns.exiftool.org/EXIF/ExifIFD/1.0/ExifImageHeight"
IRI_ExifImageWidth == "http://ns.exiftool.org/EXIF/ExifIFD/1.0/ExifImageWidth"
IRI_EXIF_GPS ==
    {"http://ns.exiftool.org/EXIF/GPS/1.0/GPSAltitudeRef",
     "http://ns.exiftool.org/EXIF/GPS/1.0/GPSAltitude",
     "http://ns.exiftool.org/EXIF/GPS/1.0/GPSLatitudeRef",
     "http://ns.exiftool.org/EXIF/GPS/1.0/GPSLatitude",
     "http://ns.exiftool.org/EXIF/GPS/1.0/GPSLongitudeRef",
     "http://ns.exiftool.org/EXIF/GPS/1.0/GPSLongitude"}
IRI_Make == "http://ns.exiftool.org/EXIF/IFD0/1.0/Make"
IRI_Model == "http://ns.exiftool.org/EXIF/IFD0/1.0/Model"
IRI_MIMEType == "http://ns.exiftool.org/File/1.0/MIMEType"
IRI_FileAccessDate == "http://ns.exiftool.org/File/System/1.0/FileAccessDate"
IRI_FileInodeChangeDate == "http://ns.exiftool.org/File/System/1.0/FileInodeChangeDate"
IRI_FileModifyDate == "http://ns.exiftool.org/File/System/1.0/FileModifyDate"
IRI_FileName == "http://ns.exiftool.org/File/System/1.0/FileName"
IRI_FilePermissions == "http://ns.exiftool.org/File/System/1.0/FilePermissions"
IRI_FileSize == "http://ns.exiftool.org/File/System/1.0/FileSize"

\* the GPS altitude / latitude / longitude branches: the raw literal, typed xsd:decimal,
\* on the Location's lat/long facet
map_composite_gps(m, v_raw, property) ==
    IF isPresentLiteral(v_raw)
    THEN LET l_value == Literal(toPython(The(v_raw)), XSD_decimal)
             m1 == n_location_object_latlong_facet(m)
         IN  graph_add(m1, <<The(m1._n_location_object_latlong_facet), property, l_value>>)
    ELSE m

\* the three file date branches: the blank replaced by "T", typed xsd:dateTime
map_file_date(m, v_raw, property) ==
    IF isPresentLiteral(v_raw)
    THEN LET m1 == n_file_facet(m)
         IN  graph_add(m1, <<The(m1._n_file_facet), property,
                             Literal(replace(toPython(The(v_raw)), " ", "T"), XSD_dateTime)>>)
    ELSE m

\* the EXIF/GPS branch without the isinstance test: any raw object is stored
map_exif_gps_any(m, exiftool_iri, v_raw) ==
    IF ~IsNone(v_raw)
    THEN LET dict_key == replace(exiftool_iri,
                                 "http://ns.exiftool.org/EXIF/GPS/1.0/GPS", "")
         IN  exif_dictionary_dict_set(m, dict_key, The(v_raw))
    ELSE m

\* the EXIF/GPS branch: a raw literal is stored in the EXIF dictionary under the name
\* left of the predicate when the prefix is removed
map_exif_gps(m, exiftool_iri, v_raw) ==
    IF isPresentLiteral(v_raw)
    THEN LET dict_key == replace(exiftool_iri,
                                 "http://ns.exiftool.org/EXIF/GPS/1.0/GPS", "")
         IN  exif_dictionary_dict_set(m, dict_key, The(v_raw))
    ELSE m

\* the FilePermissions branch without the test of the raw value: every raw literal
\* becomes a comment
map_file_permissions_any_raw(m, v_raw, v_printconv) ==
    LET m1 == IF isPresentLiteral(v_raw)
              THEN LET m0 == n_unix_file_permissions_facet(m)
                   IN  graph_add(m0, <<The(m0._n_unix_file_permissions_facet),
                                       RDFS_comment, The(v_raw)>>)
              ELSE m
    IN  IF isPresentLiteral(v_printconv)
        THEN LET m2 == n_unix_file_permissions_facet(m1)
             IN  graph_add(m2, <<The(m2._n_unix_file_permissions_facet),
                                 RDFS_comment, The(v_printconv)>>)
        ELSE m1

\* the FilePermissions branch: the raw literal a comment if it is all digits and under
\* 1000, the print-converted literal a comment
map_file_permissions(m, v_raw, v_printconv) ==
    LET m1 == IF isPresentLiteral(v_raw)
              THEN LET raw == toPython(The(v_raw))
                   IN  IF isdigit(raw) /\ int(raw).val < 1000
                       THEN LET m0 == n_unix_file_permissions_facet(m)
                            IN  graph_add(m0, <<The(m0._n_unix_file_permissions_facet),
                                                RDFS_comment, The(v_raw)>>)
                       ELSE m
              ELSE m
    IN  IF isPresentLiteral(v_printconv)
        THEN LET m2 == n_unix_file_permissions_facet(m1)
             IN  graph_add(m2, <<The(m2._n_unix_file_permissions_facet),
                                 RDFS_comment, The(v_printconv)>>)
        ELSE m1

\* the else branch with the print-converted value forgotten
map_fallback_raw_only(m, n_exiftool_predicate, v_raw, v_printconv) ==
    IF ~IsNone(v_raw)
    THEN LET m0 == n_observable_object(m)
         IN  graph_add(m0, <<The(m0._n_observable_object), n_exiftool_predicate,
                             The(v_raw)>>)
    ELSE m

\* the else branch: the predicate has no branch of its own, and each value that is
\* there goes on the observable object under the ExifTool predicate itself
map_fallback(m, n_exiftool_predicate, v_raw, v_printconv) ==
    LET m1 == IF ~IsNone(v_raw)
              THEN LET m0 == n_observable_object(m)
                   IN  graph_add(m0, <<The(m0._n_observable_object),
                                       n_exiftool_predicate, The(v_raw)>>)
              ELSE m
    IN  IF ~IsNone(v_printconv)
        THEN LET m2 == n_observable_object(m1)
             IN  graph_add(m2, <<The(m2._n_observable_object),
                                 n_exiftool_predicate, The(v_printconv)>>)
        ELSE m1

map_raw_and_printconv_iri(m, n_exiftool_predicate) ==
    LET exiftool_iri == n_exiftool_predicate
        p == pop_n_exiftool_predicate(m, n_exiftool_predicate)
        v_raw == p.v_raw
        v_printconv == p.v_printconv
    IN
    IF exiftool_iri = IRI_GPSAltitude THEN
        map_composite_gps(p.m, v_raw, "uco-location:altitude")
    ELSE IF exiftool_iri = IRI_GPSLatitude THEN
        map_composite_gps(p.m, v_raw, "uco-location:latitude")
    ELSE IF exiftool_iri = IRI_GPSLongitude THEN
        map_composite_gps(p.m, v_raw, "uco-location:longitude")
    ELSE IF exiftool_iri = IRI_GPSPosition THEN
        IF isPresentLiteral(v_printconv)
        THEN LET m1 == n_location_object(p.m)
             IN  graph_add(m1, <<The(m1._n_location_object), RDFS_label, The(v_printconv)>>)
        ELSE p.m
    ELSE IF exiftool_iri = IRI_ExifImageHeight THEN
        IF isPresentLiteral(v_raw)
        THEN LET m1 == exif_dictionary_dict_set(p.m, "Image Height", The(v_raw))
                 m2 == n_raster_picture_facet(m1)
                 i == int(toPython(The(v_raw)))
             IN  IF ~i.ok THEN Raise(m2, "ValueError")
                 ELSE graph_add(m2, <<The(m2._n_raster_picture_facet),
                                      "uco-observable:pictureHeight", IntLiteral(i.val)>>)
        ELSE p.m
    ELSE IF exiftool_iri = IRI_ExifImageWidth THEN
        IF isPresentLiteral(v_raw)
        THEN LET m1 == exif_dictionary_dict_set(p.m, "Image Width", The(v_raw))
                 i == int(toPython(The(v_raw)))
             IN  IF IsNone(m1._n_raster_picture_facet) THEN m1
                 ELSE IF ~i.ok THEN Raise(m1, "ValueError")
                 ELSE graph_add(m1, <<The(m1._n_raster_picture_facet),
                                      "uco-observable:pictureWidth", IntLiteral(i.val)>>)
        ELSE p.m
    ELSE IF exiftool_iri \in IRI_EXIF_GPS THEN
        map_exif_gps(p.m, exiftool_iri, v_raw)
    ELSE IF exiftool_iri = IRI_Make THEN
        LET printconv_str == IF isPresentLiteral(v_printconv)
                             THEN Some(The(v_printconv).lex) ELSE None
            raw_str == IF isPresentLiteral(v_raw) THEN Some(The(v_raw).lex) ELSE None
            r == manufacturer_name_to_node(p.m, printconv_str, raw_str)
        IN  IF ~IsNone(r.node)
            THEN LET m1 == n_camera_object_device_facet(r.m)
                 IN  graph_add(m1, <<The(m1._n_camera_object_device_facet),
                                     "uco-observable:manufacturer", The(r.node)>>)
            ELSE r.m
    ELSE IF exiftool_iri = IRI_Model THEN
        IF isPresentLiteral(v_raw)
        THEN LET m1 == n_camera_object_device_facet(p.m)
             IN  graph_add(m1, <<The(m1._n_camera_object_device_facet),
                                 "uco-observable:model", The(v_raw)>>)
        ELSE p.m
    ELSE IF exiftool_iri = IRI_MIMEType THEN
        IF isPresentLiteral(v_raw)
        THEN [p.m EXCEPT !._mime_type = Some(toPython(The(v_raw)))]
        ELSE p.m
    ELSE IF exiftool_iri = IRI_FileAccessDate THEN
        map_file_date(p.m, v_raw, "uco-observable:accessedTime")
    ELSE IF exiftool_iri = IRI_FileInodeChangeDate THEN
        map_file_date(p.m, v_raw, "uco-observable:metadataChangeTime")
    ELSE IF exiftool_iri = IRI_FileModifyDate THEN
        map_file_date(p.m, v_raw, "uco-observable:modifiedTime")
    ELSE IF exiftool_iri = IRI_FileName THEN
        IF isPresentLiteral(v_raw)
        THEN LET m1 == n_file_facet(p.m)
             IN  graph_add(m1, <<The(m1._n_file_facet), "uco-observable:fileName",
                                 The(v_raw)>>)
        ELSE p.m
    ELSE IF exiftool_iri = IRI_FilePermissions THEN
        map_file_permissions(p.m, v_raw, v_printconv)
    ELSE IF exiftool_iri = IRI_FileSize THEN
        IF isPresentLiteral(v_raw)
        THEN LET m1 == n_content_data_facet(p.m)
                 i == int(toPython(The(v_raw)))
             IN  IF ~i.ok THEN Raise(m1, "ValueError")
                 ELSE graph_add(m1, <<The(m1._n_content_data_facet),
                                      "uco-observable:sizeInBytes", IntLiteral(i.val)>>)
        ELSE p.m
    ELSE
        map_fallback(p.m, n_exiftool_predicate, v_raw, v_printconv)

(***************************************************************************)
(* The inputs: what the two dump files hold.  A dump is a set of           *)
(* <<predicate, object>> pairs (the triples of the one rdf:Description).   *)
(***************************************************************************)
\* the number of predicate IRIs the two dumps mention, at most
MaxIris == 2

DedicatedIris ==
    {IRI_GPSAltitude, IRI_GPSLatitude, IRI_GPSLongitude, IRI_GPSPosition,
     IRI_ExifImageHeight, IRI_ExifImageWidth, IRI_Make, IRI_Model, IRI_MIMEType,
     IRI_FileAccessDate, IRI_FileInodeChangeDate, IRI_FileModifyDate, IRI_FileName,
     IRI_FilePermissions, IRI_FileSize} \cup IRI_EXIF_GPS

\* predicates without a branch of their own, one of them GPS-prefixed
IRI_FooBar == "http://ns.exiftool.org/Foo/1.0/Bar"
IRI_GPSVersionID == "http://ns.exiftool.org/EXIF/GPS/1.0/GPSVersionID"
OtherIris == {IRI_FooBar, IRI_GPSVersionID}

\* the predicates the sample dumps draw from: every branch of map_raw_and_printconv_iri
\* has one, the branch of the six EXIF GPS predicates two
IRI_EXIF_GPSLatitude == "http://ns.exiftool.org/EXIF/GPS/1.0/GPSLatitude"
IRI_EXIF_GPSLatitudeRef == "http://ns.exiftool.org/EXIF/GPS/1.0/GPSLatitudeRef"
IriUniverse ==
    (DedicatedIris \ IRI_EXIF_GPS) \cup {IRI_EXIF_GPSLatitude, IRI_EXIF_GPSLatitudeRef}
    \cup OtherIris

Lits(S) == {Literal(x, "") : x \in S}
SampleRef == URIRef("http://example.org/ref")

\* sample raw objects of a predicate
RawSamples(iri) ==
    IF iri = IRI_MIMEType THEN Lits({"image/jpeg", "application/pdf"})
    ELSE IF iri = IRI_FileSize THEN Lits({"12345", "12 kB"})
    ELSE IF iri = IRI_ExifImageHeight THEN Lits({"480", "480.5"})
    ELSE IF iri = IRI_ExifImageWidth THEN Lits({"640", "640.5"})
    ELSE IF iri = IRI_Make THEN Lits({"Nikon Corporation", "NIKON"}) \cup {SampleRef}
    ELSE IF iri = IRI_Model THEN Lits({"D70"})
    ELSE IF iri = IRI_FilePermissions THEN Lits({"644", "100644", "rw-r--r--"})
    ELSE IF iri \in {IRI_FileAccessDate, IRI_FileInodeChangeDate, IRI_FileModifyDate}
         THEN Lits({"2019:05:01 12:00:00-04:00"})
    ELSE IF iri = IRI_FileName THEN Lits({"a.jpg"})
    ELSE IF iri = IRI_GPSAltitude THEN Lits({"12.5"})
    ELSE IF iri = IRI_GPSPosition THEN Lits({"38.9 -77.0"})
    ELSE IF iri = IRI_FooBar THEN Lits({"1"}) \cup {SampleRef}
    ELSE IF iri = IRI_GPSVersionID THEN Lits({"2.3.0.0"})
    ELSE IF iri = IRI_EXIF_GPSLatitudeRef THEN Lits({"N"}) \cup {SampleRef}
    ELSE Lits({"38.9"})

\* sample print-converted objects of a predicate; a sample dump has none for some
\* predicates
PrintconvSamples(iri) ==
    IF iri = IRI_MIMEType THEN Lits({"image/jpeg"})
    ELSE IF iri = IRI_FileSize THEN Lits({"12 kB"})
    ELSE IF iri = IRI_Make THEN Lits({"NIKON"})
    ELSE IF iri = IRI_FilePermissions THEN Lits({"rw-r--r--"})
    ELSE IF iri = IRI_FileAccessDate THEN Lits({"2019:05:01 12:00:00-04:00"})
    ELSE IF iri = IRI_GPSAltitude THEN Lits({"12.5 m"})
    ELSE IF iri = IRI_GPSPosition THEN Lits({"38 deg N, 77 deg W"})
    ELSE IF iri = IRI_EXIF_GPSLatitude THEN Lits({"38 deg"})
    ELSE IF iri = IRI_FooBar THEN Lits({"1", "one"})
    ELSE {}

\* the <<raw, print-converted>> pairs of a predicate some dump mentions
SamplePairs(iri) ==
    {<<r, c>> : r \in {None} \cup {Some(v) : v \in RawSamples(iri)},
                c \in {None} \cup {Some(v) : v \in PrintconvSamples(iri)}}
    \ {<<None, None>>}

RECURSIVE SetToSeq(_)
SetToSeq(S) ==
    IF S = {} THEN <<>>
    ELSE LET x == CHOOSE y \in S : TRUE IN <<x>> \o SetToSeq(S \ {x})

\* the predicates in sorted order, and each one's sample pairs in some order
IriSeq == sorted(IriUniverse)
PairSeq == [i \in 1..Len(IriSeq) |-> SetToSeq(SamplePairs(IriSeq[i]))]
MostPairs == CHOOSE n \in 0..64 : /\ \A i \in DOMAIN PairSeq : Len(PairSeq[i]) <= n
                                  /\ \E i \in DOMAIN PairSeq : Len(PairSeq[i]) = n

\* ks picks at most n predicates (by position in IriSeq) and ps a sample pair of each
IriChoices(n) ==
    {ks \in [1..n -> 1..Len(IriSeq)] :
        \A i \in DOMAIN ks : \A j \in DOMAIN ks : i < j => ks[i] < ks[j]}
PairChoices(ks) ==
    {ps \in [DOMAIN ks -> 1..MostPairs] : \A i \in DOMAIN ks : ps[i] <= Len(PairSeq[ks[i]])}

RawDump(ks, ps) ==
    {<<IriSeq[ks[i]], The(PairSeq[ks[i]][ps[i]][1])>> :
        i \in {j \in DOMAIN ks : ~IsNone(PairSeq[ks[j]][ps[j]][1])}}
PrintconvDump(ks, ps) ==
    {<<IriSeq[ks[i]], The(PairSeq[ks[i]][ps[i]][2])>> :
        i \in {j \in DOMAIN ks : ~IsNone(PairSeq[ks[j]][ps[j]][2])}}

\* --print-conv-xml: optional, and a print-converted dump without triples is either an
\* empty file or no file
PrintconvFiles(dump) == {Some(dump)} \cup (IF dump = {} THEN {None} ELSE {})

\* the random streams a process may draw its version-4 UUIDs from; the names are
\* interchangeable, and the first process's stream is called e1
EntropyPool == {"e1", "e2"}

(***************************************************************************)
(* main() and map_raw_and_printconv_rdf, step by step.                     *)
(***************************************************************************)
\* main() up to the construction of the mapper, over dumps that mention at most n
\* predicates
Start(n) ==
    /\ \E k \in 0..n :
       \E ks \in IriChoices(k) :
       \E ps \in PairChoices(ks) :
       \E c \in PrintconvFiles(PrintconvDump(ks, ps)) :
       \E u \in BOOLEAN :
          args = [raw_xml |-> RawDump(ks, ps), print_conv_xml |-> c,
                  use_deterministic_uuids |-> u]
    /\ self = ExifToolRDFMapper(args.use_deterministic_uuids, "e1")
    /\ pc = "main"
    /\ todo = <<>>
    /\ handled = <<>>
    /\ out_file = None
    /\ run = 1
    /\ prev = None

Init == Start(MaxIris)

\* _load_xml_file_into_dict: kv_dict[n_predicate] = v_object for every triple, in the
\* store's iteration order, so that any object of a repeated predicate may be the last
\* written
load_xml_file_into_dict(dump, kv_dict) ==
    LET preds == {t[1] : t \in dump}
        objs == {t[2] : t \in dump}
    IN  {[k \in DOMAIN kv_dict \cup preds |-> IF k \in preds THEN f[k] ELSE kv_dict[k]] :
            f \in {g \in [preds -> objs] : \A q \in preds : <<q, g[q]>> \in dump}}

\* the loads with the "is not None" guard of the print-converted file missing: parsing
\* no file raises
load_dumps_unguarded(m, raw_xml, print_conv_xml) ==
    IF IsNone(print_conv_xml) THEN {Raise(m, "TypeError")}
    ELSE {[m EXCEPT
              !._kv_dict_raw = kv_raw,
              !._kv_dict_printconv = kv_printconv,
              !._exiftool_predicate_iris = DOMAIN kv_raw \cup DOMAIN kv_printconv] :
             kv_raw \in load_xml_file_into_dict(raw_xml, m._kv_dict_raw),
             kv_printconv \in
                 load_xml_file_into_dict(The(print_conv_xml), m._kv_dict_printconv)}

\* the loads with the second "|=" forgotten: the pending set holds the raw keys only
load_dumps_raw_keys(m, raw_xml, print_conv_xml) ==
    {[m EXCEPT
         !._kv_dict_raw = kv_raw,
         !._kv_dict_printconv = kv_printconv,
         !._exiftool_predicate_iris = DOMAIN kv_raw] :
        kv_raw \in load_xml_file_into_dict(raw_xml, m._kv_dict_raw),
        kv_printconv \in
            IF IsNone(print_conv_xml) THEN {m._kv_dict_printconv}
            ELSE load_xml_file_into_dict(The(print_conv_xml), m._kv_dict_printconv)}

\* lines 415-421: the mapper states the two loads may leave
load_dumps(m, raw_xml, print_conv_xml) ==
    {[m EXCEPT
         !._kv_dict_raw = kv_raw,
         !._kv_dict_printconv = kv_printconv,
         !._exiftool_predicate_iris =
             DOMAIN kv_raw \cup (IF IsNone(print_conv_xml) THEN {} ELSE DOMAIN kv_printconv)] :
        kv_raw \in load_xml_file_into_dict(raw_xml, m._kv_dict_raw),
        kv_printconv \in
            IF IsNone(print_conv_xml) THEN {m._kv_dict_printconv}
            ELSE load_xml_file_into_dict(The(print_conv_xml), m._kv_dict_printconv)}

\* where a step that may raise goes next
after(m, next) == IF raised(m) THEN "raised" ELSE next

Load ==
    /\ pc = "main"
    /\ self' \in load_dumps(self, args.raw_xml, args.print_conv_xml)
    /\ pc' = after(self', "mime_type")
    /\ UNCHANGED <<args, todo, handled, out_file, run, prev>>

\* lines 423-426: the early pass over the MIME type
MimeType ==
    /\ pc = "mime_type"
    /\ self' = map_raw_and_printconv_iri(self, IRI_MIMEType)
    /\ handled' = Append(handled, IRI_MIMEType)
    /\ pc' = after(self', "oo_slug")
    /\ UNCHANGED <<args, todo, out_file, run, prev>>

\* lines 428-433 with the test of the MIME type forgotten
decide_oo_slug_generic(m) == [m EXCEPT !._oo_slug = Some("File-")]

\* lines 428-433
decide_oo_slug(m) ==
    [m EXCEPT !._oo_slug = IF m._mime_type = Some("image/jpeg")
                           THEN Some("Picture-") ELSE Some("File-")]

\* lines 428-436: the slug, then the first access to n_observable_object
ObservableObject ==
    /\ pc = "oo_slug"
    /\ self' = n_observable_object(decide_oo_slug(self))
    /\ pc' = after(self', "mime_finish")
    /\ UNCHANGED <<args, todo, handled, out_file, run, prev>>

\* lines 438-457 with the raster picture facet read for every MIME type
finish_mime_type_eager(m) ==
    LET m1 == IF ~IsNone(m._mime_type)
              THEN LET m0 == n_content_data_facet(m)
                   IN  graph_add(m0, <<The(m0._n_content_data_facet),
                                       "uco-observable:mimeType",
                                       Literal(The(m._mime_type), "")>>)
              ELSE m
        m2 == n_raster_picture_facet(m1)
    IN  IF m1._mime_type = Some("image/jpeg")
        THEN graph_add(m2, <<The(m2._n_raster_picture_facet),
                             "uco-observable:pictureType", Literal("jpg", "")>>)
        ELSE m2

\* lines 438-457
finish_mime_type(m) ==
    LET m1 == IF ~IsNone(m._mime_type)
              THEN LET m0 == n_content_data_facet(m)
                   IN  graph_add(m0, <<The(m0._n_content_data_facet),
                                       "uco-observable:mimeType",
                                       Literal(The(m._mime_type), "")>>)
              ELSE m
    IN  IF m1._mime_type = Some("image/jpeg")
        THEN LET m2 == n_raster_picture_facet(m1)
             IN  graph_add(m2, <<The(m2._n_raster_picture_facet),
                                 "uco-observable:pictureType", Literal("jpg", "")>>)
        ELSE m1

\* lines 438-460
MimeFinish ==
    /\ pc = "mime_finish"
    /\ self' = finish_mime_type(self)
    /\ todo' = sorted(self'._exiftool_predicate_iris)
    /\ pc' = after(self', "dispatch")
    /\ UNCHANGED <<args, handled, out_file, run, prev>>

\* lines 461-462: one iteration of the loop
Dispatch ==
    /\ pc = "dispatch"
    /\ todo # <<>>
    /\ self' = map_raw_and_printconv_iri(self, Head(todo))
    /\ handled' = Append(handled, Head(todo))
    /\ todo' = Tail(todo)
    /\ pc' = after(self', "dispatch")
    /\ UNCHANGED <<args, out_file, run, prev>>

RECURSIVE dispatch_in_order(_, _)
\* the loop of lines 461-462 run to its end over a given sequence of the predicates
dispatch_in_order(m, order) ==
    IF raised(m) \/ order = <<>> THEN m
    ELSE dispatch_in_order(map_raw_and_printconv_iri(m, Head(order)), Tail(order))

\* lines 464-468 with the two tests left out: both nodes derived in every run
derive_remaining_objects_always(m) ==
    n_relationship_object_location(n_exif_dictionary_object(m))

\* lines 464-468
derive_remaining_objects(m) ==
    LET m1 == IF ~IsNone(m._exif_dictionary_dict) THEN n_exif_dictionary_object(m) ELSE m
    IN  IF ~IsNone(m1._n_location_object) THEN n_relationship_object_location(m1) ELSE m1

Derive ==
    /\ pc = "dispatch"
    /\ todo = <<>>
    /\ self' = derive_remaining_objects(self)
    /\ pc' = after(self', "mapped")
    /\ UNCHANGED <<args, todo, handled, out_file, run, prev>>

\* lines 423-468 in one piece: map_raw_and_printconv_rdf over a loaded mapper
map_loaded(m) ==
    LET m1 == map_raw_and_printconv_iri(m, IRI_MIMEType)
        m2 == IF raised(m1) THEN m1 ELSE n_observable_object(decide_oo_slug(m1))
        m3 == IF raised(m2) THEN m2 ELSE finish_mime_type(m2)
        m4 == IF raised(m3) THEN m3
              ELSE dispatch_in_order(m3, sorted(m3._exiftool_predicate_iris))
    IN  IF raised(m4) THEN m4 ELSE derive_remaining_objects(m4)

\* main() in one piece: the files a process with random stream e may
\* write over a command line, None for no file
main(a, e) ==
    {IF raised(m) THEN None ELSE Some(m._graph) :
        m \in {map_loaded(l) :
                  l \in load_dumps(ExifToolRDFMapper(a.use_deterministic_uuids, e),
                                   a.raw_xml, a.print_conv_xml)}}

\* lines 907-911 of main(): out_graph.serialize
Serialize ==
    /\ pc = "mapped"
    /\ out_file' = Some(self._graph)
    /\ pc' = "serialized"
    /\ UNCHANGED <<args, self, todo, handled, run, prev>>

Next ==
    \/ Load
    \/ MimeType
    \/ ObservableObject
    \/ MimeFinish
    \/ Dispatch
    \/ Derive
    \/ Serialize

Spec == Init /\ [][Next]_vars

(***************************************************************************)
(* A second process over the same dump files, for the statements that      *)
(* compare two runs.                                                       *)
(***************************************************************************)
\* the number of predicate IRIs the dumps mention when two runs are compared, at most
MaxRerunIris == 1

\* the command lines of the second process: the same, or the same with an empty
\* print-converted dump traded for no dump (and back)
Reruns(a) ==
    {a} \cup (IF a.print_conv_xml = Some({}) THEN {[a EXCEPT !.print_conv_xml = None]}
              ELSE IF IsNone(a.print_conv_xml) THEN {[a EXCEPT !.print_conv_xml = Some({})]}
              ELSE {})

Rerun ==
    /\ run = 1
    /\ pc \in {"serialized", "raised"}
    /\ prev' = Some([args |-> args, graph |-> self._graph, handled |-> handled,
                     pc |-> pc, out_file |-> out_file])
    /\ run' = 2
    /\ \E a \in Reruns(args) : \E e \in EntropyPool :
          /\ args' = a
          /\ self' = ExifToolRDFMapper(a.use_deterministic_uuids, e)
    /\ pc' = "main"
    /\ todo' = <<>>
    /\ handled' = <<>>
    /\ out_file' = None

SpecRerun == Start(MaxRerunIris) /\ [][Next \/ Rerun]_vars

(***************************************************************************)
(* Vocabulary of the properties.                                           *)
(***************************************************************************)
graph == self._graph

\* the nodes of g that carry a type triple and were minted under slug
CreatedIn(g, slug) == {t[1] : t \in {x \in g : x[2] = RDF_type /\ x[1].slug = slug}}
Created(slug) == CreatedIn(graph, slug)

\* the nodes of g typed cls
TypedIn(g, cls) == {t[1] : t \in {x \in g : x[2] = RDF_type /\ x[3] = URIRef(cls)}}

FacetSlugs ==
    {"ContentDataFacet-", "FileFacet-", "EXIFFacet-", "DeviceFacet-",
     "RasterPictureFacet-", "LatLongCoordinatesFacet-", "UNIXFilePermissionsFacet-"}

BaseObjects == Created("File-") \cup Created("Picture-")

\* the positions after the first access to n_observable_object
AfterBase == {"mime_finish", "dispatch", "mapped", "serialized"}

\* the predicates of the two dumps
InputIris ==
    {t[1] : t \in args.raw_xml}
    \cup (IF IsNone(args.print_conv_xml) THEN {} ELSE {t[1] : t \in The(args.print_conv_xml)})

RawOf(iri) == {t[2] : t \in {x \in args.raw_xml : x[1] = iri}}
PrintconvOf(iri) ==
    IF IsNone(args.print_conv_xml) THEN {}
    ELSE {t[2] : t \in {x \in The(args.print_conv_xml) : x[1] = iri}}

StartsWith(str, prefix) ==
    Len(str) >= Len(prefix) /\ SubSeq(str, 1, Len(prefix)) = prefix

GpsPrefixed(iri) ==
    \/ StartsWith(iri, "http://ns.exiftool.org/Composite/1.0/GPS")
    \/ StartsWith(iri, "http://ns.exiftool.org/EXIF/GPS/1.0/GPS")

\* a term with the random stream of its version-4 UUID (for a facet in deterministic
\* mode: of its owner's) replaced by e
Renamed(x, e) ==
    IF x.t # "kb" THEN x
    ELSE IF x.uuid.k = "uuid4" THEN [x EXCEPT !.uuid.e = e]
    ELSE [x EXCEPT !.uuid.owner.uuid.e = e]

RenamedGraph(g, e) == {<<Renamed(t[1], e), t[2], Renamed(t[3], e)>> : t \in g}

\* the second process has finished over the very same command line
SameRunTwice ==
    /\ run = 2
    /\ pc = "serialized"
    /\ The(prev).pc = "serialized"
    /\ args = The(prev).args

(***************************************************************************)
(* C1.  In every run exactly one base Output Object is created, at most    *)
(* one Device Object and one Location Object, and each facet kind at most  *)
(* once; no memoized node field is ever assigned a second time.            *)
(***************************************************************************)
C1_CreatedOnce ==
    /\ [](/\ \A slug \in FacetSlugs \cup {"Device-", "Location-"} :
                Cardinality(Created(slug)) <= 1
          /\ Cardinality(BaseObjects) <= 1
          /\ pc \in AfterBase => Cardinality(BaseObjects) = 1)
    /\ [][\A f \in NodeFields : ~IsNone(self[f]) => self'[f] = self[f]]_vars

\* Make and Model have both reached the Device Facet, and the run is over
C1_Witness ==
    /\ pc = "serialized"
    /\ \E i \in DOMAIN handled : handled[i] = IRI_Make
    /\ \E i \in DOMAIN handled : handled[i] = IRI_Model
    /\ \E t \in graph : t[2] = "uco-observable:manufacturer"
    /\ \E t \in graph : t[2] = "uco-observable:model"
    /\ Cardinality(Created("Device-")) = 1

(***************************************************************************)
(* C2.  As claimed: at the end of a run the Location Object, its lat/long  *)
(* facet and the Location-to-Object relationship are in the graph if and   *)
(* only if some GPS-prefixed predicate was in the union of the two dumps.  *)
(***************************************************************************)
LocationParts ==
    /\ Created("Location-") # {}
    /\ Created("LatLongCoordinatesFacet-") # {}
    /\ Created("Relationship-") # {}

C2_LocationIffGpsPrefixed ==
    pc \in {"mapped", "serialized"} =>
        (LocationParts <=> \E iri \in InputIris : GpsPrefixed(iri))

FacetsDerived(g) ==
    \A t \in g : t[2] = "uco-core:hasFacet" =>
        /\ t[3].uuid.k = "uuid5"
        /\ t[3].uuid.owner = t[1]
        /\ <<t[3], RDF_type, URIRef(t[3].uuid.cls)>> \in g

C4_NoFileAsEmptyFile ==
    /\ IsNone(args.print_conv_xml) => DOMAIN self._kv_dict_printconv = {}
    /\ ( /\ run = 2
         /\ pc \in {"serialized", "raised"}
         /\ args.raw_xml = The(prev).args.raw_xml
         /\ args.use_deterministic_uuids = The(prev).args.use_deterministic_uuids
         /\ {args.print_conv_xml, The(prev).args.print_conv_xml} = {None, Some({})} )
       => /\ handled = The(prev).handled
          /\ pc = The(prev).pc
          /\ RenamedGraph(The(prev).graph, self.entropy) = graph
          /\ IsNone(out_file) = IsNone(The(prev).out_file)

\* a run without a print-converted file has finished after one with an empty one, over a
\* raw dump that is not empty
C4_Witness ==
    /\ run = 2
    /\ pc = "serialized"
    /\ IsNone(args.print_conv_xml)
    /\ The(prev).args.print_conv_xml = Some({})
    /\ args.raw_xml = The(prev).args.raw_xml
    /\ Len(handled) >= 2

\* the predicate has been through map_raw_and_printconv_iri
Handled(iri) == \E i \in DOMAIN handled : handled[i] = iri

\* the raw and the print-converted name a dump gives the predicate, when it is a literal
RawName(iri) == {v.lex : v \in {x \in RawOf(iri) : isLiteral(x)}}
PrintconvName(iri) == {v.lex : v \in {x \in PrintconvOf(iri) : isLiteral(x)}}

WithPredicate(g, predicate) == {t \in g : t[2] = predicate}
ObjectsOf(g, n, predicate) == {t[3] : t \in {x \in g : x[1] = n /\ x[2] = predicate}}

(***************************************************************************)
(* C5.  As claimed: for dumps whose only predicates are MIMEType, raw      *)
(* "image/jpeg", and FileSize, raw 12345, the finished graph holds exactly *)
(* one base object, typed as a picture (an rdf:type other than the         *)
(* ObservableObject every base object carries), exactly one Content-Data   *)
(* Facet on it with sizeInBytes 12345 and mimeType "image/jpeg", exactly   *)
(* one Raster-Picture Facet on it with pictureType "jpg", and nothing else.*)
(***************************************************************************)
C5_Case ==
    /\ pc = "serialized"
    /\ InputIris = {IRI_MIMEType, IRI_FileSize}
    /\ RawOf(IRI_MIMEType) = {Literal("image/jpeg", "")}
    /\ RawOf(IRI_FileSize) = {Literal("12345", "")}

\* the two facets and their properties, and nothing but the types of the base object
C5_FacetsOnly ==
    \E b \in BaseObjects :
    \E c \in Created("ContentDataFacet-") :
    \E r \in Created("RasterPictureFacet-") :
        /\ BaseObjects = {b}
        /\ {t \in graph : ~(t[1] = b /\ t[2] = RDF_type)} =
              { <<b, "uco-core:hasFacet", c>>,
                <<c, RDF_type, URIRef("uco-observable:ContentDataFacet")>>,
                <<c, "uco-observable:sizeInBytes", Literal("12345", XSD_integer)>>,
                <<c, "uco-observable:mimeType", Literal("image/jpeg", "")>>,
                <<b, "uco-core:hasFacet", r>>,
                <<r, RDF_type, URIRef("uco-observable:RasterPictureFacet")>>,
                <<r, "uco-observable:pictureType", Literal("jpg", "")>> }

C5_TypedAsPicture ==
    \A b \in BaseObjects :
        ObjectsOf(graph, b, RDF_type) \ {URIRef("uco-observable:ObservableObject")} # {}

C5_JpegExample == C5_Case => (C5_FacetsOnly /\ C5_TypedAsPicture)

(***************************************************************************)
(* C6.  Make, with raw name r and print-converted name p: while neither is *)
(* there, no Identity node exists and the Make handler leaves no           *)
(* manufacturer link (and, Model aside, no Device Facet); once Make is     *)
(* handled with a name, exactly one Identity node exists, named p when p   *)
(* is there and r otherwise, commented with r exactly when both are there  *)
(* and differ, and the one Device Facet links to it as its manufacturer.   *)
(***************************************************************************)
C6_Manufacturer ==
    LET r == RawName(IRI_Make)
        p == PrintconvName(IRI_Make)
        ids == Created("Identity-")
    IN  /\ (r = {} /\ p = {}) =>
               /\ ids = {}
               /\ WithPredicate(graph, "uco-observable:manufacturer") = {}
               /\ RawName(IRI_Model) = {} => Created("DeviceFacet-") = {}
        /\ ~Handled(IRI_Make) => ids = {}
        /\ (Handled(IRI_Make) /\ (r # {} \/ p # {})) =>
               \E n \in ids : \E d \in Created("DeviceFacet-") :
                   /\ ids = {n}
                   /\ Created("DeviceFacet-") = {d}
                   /\ ObjectsOf(graph, n, "uco-core:name") =
                          {Literal(x, "") : x \in IF p # {} THEN p ELSE r}
                   /\ ObjectsOf(graph, n, RDFS_comment) =
                          {Literal(x, "") : x \in IF p # {} /\ r # p THEN r ELSE {}}
                   /\ WithPredicate(graph, "uco-observable:manufacturer") =
                          {<<d, "uco-observable:manufacturer", n>>}
                   /\ \E o \in Created("Device-") : <<o, "uco-core:hasFacet", d>> \in graph

\* the example: raw "Nikon Corporation", print-converted "NIKON"
C6_Witness ==
    /\ pc = "serialized"
    /\ RawName(IRI_Make) = {"Nikon Corporation"}
    /\ PrintconvName(IRI_Make) = {"NIKON"}
    /\ \E n \in Created("Identity-") :
          /\ <<n, "uco-core:name", Literal("NIKON", "")>> \in graph
          /\ <<n, RDFS_comment, Literal("Nikon Corporation", "")>> \in graph

\* the triples of g that mention the predicate IRI anywhere
Mentions(g, iri) ==
    {t \in g : t[2] = iri \/ t[1] = URIRef(iri) \/ t[3] = URIRef(iri)}

\* the predicates of the dumps that have no branch of their own
Unmatched == InputIris \ DedicatedIris

(***************************************************************************)
(* C7.  As claimed: for a predicate without a dedicated handler the graph  *)
(* holds, on the base object and under that predicate, one triple for the  *)
(* raw value if there is one and a separate triple for the print-converted *)
(* value if there is one, and nothing else mentions the predicate: one     *)
(* triple with only a raw value, two triples with both values.             *)
(***************************************************************************)
C7_SeparateTriples ==
    pc \in {"mapped", "serialized"} =>
        \A iri \in Unmatched : \E b \in BaseObjects :
            /\ Mentions(graph, iri) =
                  {<<b, iri, v>> : v \in RawOf(iri) \cup PrintconvOf(iri)}
            /\ Cardinality(Mentions(graph, iri)) =
                  Cardinality(RawOf(iri)) + Cardinality(PrintconvOf(iri))

(***************************************************************************)
(* C7, amended.  For a predicate without a dedicated handler the graph     *)
(* holds, on the base object and under that predicate, the raw value if    *)
(* there is one and the print-converted value if there is one, and nothing *)
(* else mentions the predicate: one triple with only one value or with two *)
(* values that are the same term, two triples with two values that differ. *)
(***************************************************************************)
C7_FallbackTriples ==
    \A iri \in Unmatched :
        /\ ~Handled(iri) => Mentions(graph, iri) = {}
        /\ Handled(iri) =>
              \E b \in BaseObjects :
                  /\ Mentions(graph, iri) =
                        {<<b, iri, v>> : v \in RawOf(iri) \cup PrintconvOf(iri)}
                  /\ Cardinality(Mentions(graph, iri)) =
                        IF RawOf(iri) = {} \/ PrintconvOf(iri) = {}
                           \/ RawOf(iri) = PrintconvOf(iri)
                        THEN 1 ELSE 2

\* both values of Foo/1.0/Bar are there and differ, and both are in the finished graph
C7_Witness ==
    /\ pc = "serialized"
    /\ RawOf(IRI_FooBar) # {}
    /\ PrintconvOf(IRI_FooBar) # {}
    /\ RawOf(IRI_FooBar) # PrintconvOf(IRI_FooBar)
    /\ Cardinality(WithPredicate(graph, IRI_FooBar)) = 2

(***************************************************************************)
(* C8.  The prefix of the base object's identifier is decided once, by the *)
(* early pass over the MIME type: before it is decided no base object      *)
(* exists and no predicate of the sorted loop has been handled; it is      *)
(* "Picture-" when the raw MIME type is "image/jpeg" and "File-" for any   *)
(* other or no MIME type; neither the early pass nor the decision aborts   *)
(* the run; the base object carries the decided prefix and no later step   *)
(* changes the prefix.                                                     *)
(***************************************************************************)
BeforeSlug == {"main", "mime_type", "oo_slug"}

C8_SlugDecidedOnce ==
    /\ [](/\ pc \in BeforeSlug =>
                /\ IsNone(self._oo_slug)
                /\ IsNone(self._n_observable_object)
                /\ graph = {}
                /\ handled \in {<<>>, <<IRI_MIMEType>>}
          /\ pc \notin BeforeSlug =>
                /\ self._oo_slug = Some(IF RawName(IRI_MIMEType) = {"image/jpeg"}
                                        THEN "Picture-" ELSE "File-")
                /\ ~IsNone(self._n_observable_object)
                /\ BaseObjects = {The(self._n_observable_object)}
                /\ The(self._n_observable_object).slug = The(self._oo_slug))
    /\ [][~IsNone(self._oo_slug) => self'._oo_slug = self._oo_slug]_vars
    /\ [][(pc \in BeforeSlug) => (pc' # "raised")]_vars

\* a run over a PDF's dumps has finished on a File- object, after the loop handled
\* another predicate
C8_Witness ==
    /\ pc = "serialized"
    /\ RawName(IRI_MIMEType) = {"application/pdf"}
    /\ Created("File-") # {}
    /\ Len(handled) >= 2

(***************************************************************************)
(* C9.  As claimed: when the raw value of FileSize, ExifImageHeight or     *)
(* ExifImageWidth cannot be coerced to an integer, then once the field has *)
(* been handled the run has ended in an error, nothing is serialized, and  *)
(* the graph holds no facet and the EXIF dictionary no entry created on    *)
(* behalf of the field.                                                    *)
(***************************************************************************)
\* the raw value of the predicate holds a character no integer numeral holds
Malformed(iri) ==
    \E x \in RawName(iri) : \E i \in 1..Len(x) :
        /\ ~IsDigitChar(SubSeq(x, i, i))
        /\ SubSeq(x, i, i) \notin {" ", "+", "-", "_"}

\* MIMEType "image/jpeg" creates the two facets on its own behalf
JpegFacets == IF self._mime_type = Some("image/jpeg")
              THEN {"ContentDataFacet-", "RasterPictureFacet-"}
              ELSE IF ~IsNone(self._mime_type) THEN {"ContentDataFacet-"} ELSE {}

ExifDictionaryKeys ==
    IF IsNone(self._exif_dictionary_dict) THEN {} ELSE DOMAIN The(self._exif_dictionary_dict)

C9_CoercionFatal ==
    /\ (Handled(IRI_FileSize) /\ Malformed(IRI_FileSize)) =>
           /\ pc = "raised"
           /\ IsNone(out_file)
           /\ "ContentDataFacet-" \notin JpegFacets => Created("ContentDataFacet-") = {}
    /\ (Handled(IRI_ExifImageHeight) /\ Malformed(IRI_ExifImageHeight)) =>
           /\ pc = "raised"
           /\ IsNone(out_file)
           /\ "RasterPictureFacet-" \notin JpegFacets => Created("RasterPictureFacet-") = {}
           /\ "Image Height" \notin ExifDictionaryKeys
    /\ (Handled(IRI_ExifImageWidth) /\ Malformed(IRI_ExifImageWidth)) =>
           /\ pc = "raised"
           /\ IsNone(out_file)
           /\ "Image Width" \notin ExifDictionaryKeys

(***************************************************************************)
(* C9, amended.  When the raw value of FileSize or ExifImageHeight cannot  *)
(* be coerced to an integer, or that of ExifImageWidth while a             *)
(* Raster-Picture Facet exists, then once the field has been handled the   *)
(* run has ended in a ValueError and nothing is serialized; a malformed    *)
(* ExifImageWidth without a Raster-Picture Facet is not coerced and does   *)
(* not end the run.  A run ends in an error only this way, a run that      *)
(* ended in an error serializes nothing, and sizeInBytes, pictureHeight    *)
(* and pictureWidth only ever hold the integer read from the raw value.    *)
(***************************************************************************)
LastHandled == handled[Len(handled)]

Coerced == [p \in {"uco-observable:sizeInBytes", "uco-observable:pictureHeight",
                   "uco-observable:pictureWidth"} |->
               IF p = "uco-observable:sizeInBytes" THEN IRI_FileSize
               ELSE IF p = "uco-observable:pictureHeight" THEN IRI_ExifImageHeight
               ELSE IRI_ExifImageWidth]

C9_CoercionFailure ==
    /\ \A iri \in {IRI_FileSize, IRI_ExifImageHeight} :
           (Handled(iri) /\ Malformed(iri)) =>
               (pc = "raised" /\ IsNone(out_file) /\ LastHandled = iri)
    /\ (Handled(IRI_ExifImageWidth) /\ Malformed(IRI_ExifImageWidth)) =>
           IF Created("RasterPictureFacet-") # {}
           THEN pc = "raised" /\ IsNone(out_file) /\ LastHandled = IRI_ExifImageWidth
           ELSE pc = "raised" => LastHandled # IRI_ExifImageWidth
    /\ pc = "raised" =>
           /\ self.exception = Some("ValueError")
           /\ IsNone(out_file)
           /\ LastHandled \in {IRI_FileSize, IRI_ExifImageHeight, IRI_ExifImageWidth}
           /\ Malformed(LastHandled)
    /\ ~IsNone(out_file) => pc = "serialized"
    /\ \A p \in DOMAIN Coerced : \A t \in WithPredicate(graph, p) :
           \E x \in RawName(Coerced[p]) :
               /\ ~Malformed(Coerced[p])
               /\ t[3] = Literal(x, XSD_integer)

\* the run has ended in the coercion of a malformed ExifImageWidth, the Raster-Picture
\* Facet and the dictionary entry already made
C9_Witness ==
    /\ pc = "raised"
    /\ LastHandled = IRI_ExifImageWidth
    /\ Malformed(IRI_ExifImageWidth)
    /\ Created("RasterPictureFacet-") # {}
    /\ "Image Width" \in ExifDictionaryKeys
    /\ IsNone(out_file)

(***************************************************************************)
(* C10.  As claimed: for dumps that describe a PDF file (raw MIME type     *)
(* application/pdf) the finished graph holds exactly one node typed        *)
(* uco-observable:PDFFile.                                                 *)
(***************************************************************************)
C10_PdfTyped ==
    (pc = "serialized" /\ RawName(IRI_MIMEType) = {"application/pdf"}) =>
        Cardinality(TypedIn(graph, "uco-observable:PDFFile")) = 1

\* the pending identifier set and the keys of the two value mappings
Pending == self._exiftool_predicate_iris
RawKeys == DOMAIN self._kv_dict_raw
PrintconvKeys == DOMAIN self._kv_dict_printconv

(***************************************************************************)
(* C11.  Right after loading, the pending identifier set is the union of   *)
(* the predicates of the two dumps, the mapping of a file that was not     *)
(* given being empty; and at every point between handler invocations the   *)
(* pending set is the union of the keys of the two mappings.               *)
(***************************************************************************)
C11_PendingIsUnion ==
    /\ Pending = RawKeys \cup PrintconvKeys
    /\ pc = "mime_type" =>
          /\ Pending = InputIris
          /\ RawKeys = {t[1] : t \in args.raw_xml}
          /\ IsNone(args.print_conv_xml) => PrintconvKeys = {}

\* in the middle of the loop, something popped and something pending that only the
\* print-converted mapping holds
C11_Witness ==
    /\ pc = "dispatch"
    /\ Len(handled) >= 2
    /\ Pending \ RawKeys # {}

\* how many times the predicate has been through map_raw_and_printconv_iri
TimesHandled(iri) == Cardinality({i \in DOMAIN handled : handled[i] = iri})

(***************************************************************************)
(* C12.  As claimed: in every run, once it is over, every identifier of    *)
(* the two dumps has been handled exactly once, the MIME type by the early *)
(* pass only; a handled identifier is in neither the pending set nor a     *)
(* value mapping; and after a completed run the pending set and both       *)
(* mappings are empty.                                                     *)
(***************************************************************************)
C12_EveryIdentifierOnce ==
    /\ pc \in {"mapped", "serialized", "raised"} =>
          \A iri \in InputIris : TimesHandled(iri) = 1
    /\ \A i \in DOMAIN handled :
          /\ handled[i] = IRI_MIMEType <=> i = 1
          /\ handled[i] \notin Pending \cup RawKeys \cup PrintconvKeys
    /\ pc \in {"mapped", "serialized"} =>
          (Pending = {} /\ RawKeys = {} /\ PrintconvKeys = {})

(***************************************************************************)
(* C12, amended.  No identifier is handled twice, the MIME type is handled *)
(* by the early pass and never in the sorted loop, a handled identifier is *)
(* in neither the pending set nor a value mapping for the rest of the run, *)
(* and when a run completes every identifier of the two dumps has been     *)
(* handled and the pending set and both mappings are empty; a run that     *)
(* ends in an error leaves the identifiers sorted after the failing one    *)
(* unhandled.                                                              *)
(***************************************************************************)
C12_HandledOnce ==
    /\ \A i \in DOMAIN handled :
          /\ \A j \in DOMAIN handled : handled[i] = handled[j] => i = j
          /\ handled[i] = IRI_MIMEType <=> i = 1
          /\ handled[i] \notin Pending \cup RawKeys \cup PrintconvKeys
          /\ i > 1 => handled[i] \in InputIris
    /\ pc \in {"mapped", "serialized"} =>
          /\ {handled[i] : i \in DOMAIN handled} = InputIris \cup {IRI_MIMEType}
          /\ Pending = {}
          /\ RawKeys = {}
          /\ PrintconvKeys = {}

\* a finished run over dumps that hold the MIME type and another predicate
C12_Witness ==
    /\ pc = "serialized"
    /\ IRI_MIMEType \in InputIris
    /\ Len(handled) = 2
    /\ Pending = {}

\* the graph holds a controlled-dictionary entry with this key and this value
DictionaryEntry(key, value) ==
    \E d \in Created("ControlledDictionary-") :
    \E n \in ObjectsOf(graph, d, "uco-types:entry") :
        /\ <<n, "uco-types:key", Literal(key, "")>> \in graph
        /\ <<n, "uco-types:value", value>> \in graph

\* the one raster picture facet holds the integer of this raw name under the property
RasterField(property, names) ==
    \E f \in Created("RasterPictureFacet-") :
        ObjectsOf(graph, f, property) = {Literal(x, XSD_integer) : x \in names}

(***************************************************************************)
(* C13.  As claimed: whenever ExifImageHeight (ExifImageWidth) has a raw   *)
(* literal value that reads as an integer, the finished graph holds it     *)
(* both as the EXIF dictionary entry "Image Height" ("Image Width") and as *)
(* the numeric pictureHeight (pictureWidth) of the Raster-Picture Facet,   *)
(* whatever the MIME type and whether or not the height is there.          *)
(***************************************************************************)
C13_DictionaryAndRaster ==
    pc = "serialized" =>
        /\ (RawName(IRI_ExifImageHeight) # {} /\ ~Malformed(IRI_ExifImageHeight)) =>
               /\ \A v \in RawOf(IRI_ExifImageHeight) : DictionaryEntry("Image Height", v)
               /\ RasterField("uco-observable:pictureHeight", RawName(IRI_ExifImageHeight))
        /\ (RawName(IRI_ExifImageWidth) # {} /\ ~Malformed(IRI_ExifImageWidth)) =>
               /\ \A v \in RawOf(IRI_ExifImageWidth) : DictionaryEntry("Image Width", v)
               /\ RasterField("uco-observable:pictureWidth", RawName(IRI_ExifImageWidth))

\* the GPS predicates of one axis, composite and per-axis, and the axis's property
GpsAxis ==
    [altitude |-> {IRI_GPSAltitude, "http://ns.exiftool.org/EXIF/GPS/1.0/GPSAltitude"},
     latitude |-> {IRI_GPSLatitude, IRI_EXIF_GPSLatitude},
     longitude |-> {IRI_GPSLongitude, "http://ns.exiftool.org/EXIF/GPS/1.0/GPSLongitude"}]

\* the lat/long facet holds the decimal of this raw name under the axis's property
OnLatLongFacet(axis, x) ==
    \E f \in Created("LatLongCoordinatesFacet-") :
        <<f, "uco-location:" \o axis, Literal(x, XSD_decimal)>> \in graph

\* some entry of the controlled dictionary holds this value
InDictionary(value) ==
    \E d \in Created("ControlledDictionary-") :
    \E n \in ObjectsOf(graph, d, "uco-types:entry") :
        <<n, "uco-types:value", value>> \in graph

(***************************************************************************)
(* C14.  As claimed: for each GPS altitude, latitude or longitude          *)
(* predicate with a raw literal value, composite or per-axis, the finished *)
(* graph holds the decimal-typed raw value on the lat/long facet and a     *)
(* copy of the value in the EXIF controlled dictionary.                    *)
(***************************************************************************)
C14_FacetAndDictionary ==
    pc = "serialized" =>
        \A axis \in DOMAIN GpsAxis : \A iri \in GpsAxis[axis] \cap InputIris :
            \A v \in {x \in RawOf(iri) : isLiteral(x)} :
                OnLatLongFacet(axis, v.lex) /\ InDictionary(v)

\* the literals the two dumps give FilePermissions
RawPermissions == {v \in RawOf(IRI_FilePermissions) : isLiteral(v)}
PrintconvPermissions == {v \in PrintconvOf(IRI_FilePermissions) : isLiteral(v)}

\* the comments of the unix file permissions facets
PermissionComments ==
    {t[3] : t \in {x \in graph : x[2] = RDFS_comment
                                 /\ x[1].slug = "UNIXFilePermissionsFacet-"}}

(***************************************************************************)
(* C15.  As claimed: once FilePermissions is handled, a raw value is on    *)
(* the Unix Permissions Facet whether or not it is numeric and under 1000  *)
(* (as a comment at least), and so is a print-converted value: no raw      *)
(* permissions value is dropped.                                           *)
(***************************************************************************)
C15_RawNeverDropped ==
    Handled(IRI_FilePermissions) =>
        RawPermissions \cup PrintconvPermissions \subseteq PermissionComments

(***************************************************************************)
(* C15, amended.  Once FilePermissions is handled, the comments of the     *)
(* Unix Permissions Facet are the raw value if it is all digits and under  *)
(* 1000 and the print-converted value if there is one; a raw value that is *)
(* not leaves no triple, and without a comment there is no such facet.     *)
(***************************************************************************)
C15_Permissions ==
    /\ ~Handled(IRI_FilePermissions) => Created("UNIXFilePermissionsFacet-") = {}
    /\ Handled(IRI_FilePermissions) =>
          /\ PermissionComments =
                {v \in RawPermissions : isdigit(v.lex) /\ int(v.lex).val < 1000}
                \cup PrintconvPermissions
          /\ PermissionComments = {} <=> Created("UNIXFilePermissionsFacet-") = {}
          /\ Cardinality(Created("UNIXFilePermissionsFacet-")) <= 1
          /\ \A t \in graph :
                t[3] \in RawPermissions =>
                    (t[1].slug = "UNIXFilePermissionsFacet-" /\ t[2] = RDFS_comment)

\* a finished run in which the raw value 100644 left nothing and the print-converted
\* value is the facet's only comment
C15_Witness ==
    /\ pc = "serialized"
    /\ RawPermissions = {Literal("100644", "")}
    /\ PrintconvPermissions # {}
    /\ PermissionComments = PrintconvPermissions

\* the nodes of the two deferred derivations in a graph
DeferredIn(g) ==
    CreatedIn(g, "ControlledDictionary-") \cup CreatedIn(g, "ControlledDictionaryEntry-")
    \cup CreatedIn(g, "EXIFFacet-") \cup CreatedIn(g, "Relationship-")

\* the dictionary node has one entry per stored key, with the stored value, and the EXIF
\* facet refers to it
OneEntryPerKey ==
    \E d \in Created("ControlledDictionary-") : \E f \in Created("EXIFFacet-") :
        LET entries == ObjectsOf(graph, d, "uco-types:entry")
        IN  /\ Created("ControlledDictionary-") = {d}
            /\ Created("EXIFFacet-") = {f}
            /\ <<f, "uco-observable:exifData", d>> \in graph
            /\ entries = Created("ControlledDictionaryEntry-")
            /\ Cardinality(entries) = Cardinality(ExifDictionaryKeys)
            /\ \A key \in ExifDictionaryKeys : \E n \in entries :
                  /\ ObjectsOf(graph, n, "uco-types:key") = {Literal(key, "")}
                  /\ ObjectsOf(graph, n, "uco-types:value")
                        = {The(self._exif_dictionary_dict)[key]}

\* the handlers that store an entry in the EXIF dictionary, with a raw literal to store
StoresEntry(iri) ==
    /\ iri \in {IRI_ExifImageHeight, IRI_ExifImageWidth} \cup IRI_EXIF_GPS
    /\ \E v \in RawOf(iri) : isLiteral(v)

(***************************************************************************)
(* C16.  The EXIF controlled-dictionary node, its entries, the EXIF facet  *)
(* and the Location-to-Object relationship are created only by the step    *)
(* taken when the dispatch loop has no identifier left, and are in no      *)
(* graph before it.  In a run that completes, the dictionary node and the  *)
(* EXIF facet exist if and only if a handler stored an entry, and then the *)
(* node has one entry per stored key; the relationship exists if and only  *)
(* if a handler created the Location Object.                               *)
(***************************************************************************)
C16_DeferredDerivations ==
    /\ [](/\ DeferredIn(graph) # {} =>
                (todo = <<>> /\ pc \in {"mapped", "serialized", "raised"})
          /\ pc \in {"mapped", "serialized"} =>
                /\ ExifDictionaryKeys # {} <=> \E iri \in InputIris : StoresEntry(iri)
                /\ IF ExifDictionaryKeys # {}
                   THEN OneEntryPerKey
                   ELSE /\ IsNone(self._exif_dictionary_dict)
                        /\ DeferredIn(graph) \subseteq Created("Relationship-")
                /\ Cardinality(Created("Relationship-"))
                      = Cardinality(Created("Location-"))
                /\ Created("Relationship-") # {} <=> ~IsNone(self._n_location_object))
    /\ [][(DeferredIn(self'._graph) # DeferredIn(graph)) =>
              (pc = "dispatch" /\ todo = <<>>)]_vars

\* a finished run that derived a dictionary of one entry and no relationship
C16_Witness ==
    /\ pc = "serialized"
    /\ Cardinality(Created("ControlledDictionaryEntry-")) = 1
    /\ Created("EXIFFacet-") # {}
    /\ Created("Relationship-") = {}
    /\ Created("Location-") = {}

\* the lazily created objects and facets: the field, the owner's field (None for an
\* object), the slug and the class
LazyNodes ==
    {<<"_n_camera_object", None, "Device-", "uco-observable:ObservableObject">>,
     <<"_n_location_object", None, "Location-", "uco-location:Location">>,
     <<"_n_camera_object_device_facet", Some("_n_camera_object"),
       "DeviceFacet-", "uco-observable:DeviceFacet">>,
     <<"_n_content_data_facet", Some("_n_observable_object"),
       "ContentDataFacet-", "uco-observable:ContentDataFacet">>,
     <<"_n_exif_facet", Some("_n_observable_object"),
       "EXIFFacet-", "uco-observable:EXIFFacet">>,
     <<"_n_file_facet", Some("_n_observable_object"),
       "FileFacet-", "uco-observable:FileFacet">>,
     <<"_n_location_object_latlong_facet", Some("_n_location_object"),
       "LatLongCoordinatesFacet-", "uco-location:LatLongCoordinatesFacet">>,
     <<"_n_raster_picture_facet", Some("_n_observable_object"),
       "RasterPictureFacet-", "uco-observable:RasterPictureFacet">>,
     <<"_n_unix_file_permissions_facet", Some("_n_observable_object"),
       "UNIXFilePermissionsFacet-", "uco-observable:UNIXFilePermissionsFacet">>}

\* one access to the property that fills the field
Access(m, field) ==
    CASE field = "_n_camera_object" -> n_camera_object(m)
      [] field = "_n_location_object" -> n_location_object(m)
      [] field = "_n_camera_object_device_facet" -> n_camera_object_device_facet(m)
      [] field = "_n_content_data_facet" -> n_content_data_facet(m)
      [] field = "_n_exif_facet" -> n_exif_facet(m)
      [] field = "_n_file_facet" -> n_file_facet(m)
      [] field = "_n_location_object_latlong_facet" -> n_location_object_latlong_facet(m)
      [] field = "_n_raster_picture_facet" -> n_raster_picture_facet(m)
      [] field = "_n_unix_file_permissions_facet" -> n_unix_file_permissions_facet(m)

\* the class of the object a lazy property creates for the owner's field
OwnerClass(owner_field) ==
    IF owner_field = "_n_location_object" THEN "uco-location:Location"
    ELSE "uco-observable:ObservableObject"

\* the triples the first access to a lazy node adds: its type, and for a facet the
\* hasFacet triple from its owner and the owner's own type if the access created it
FirstAccessAdds(l) ==
    LET m1 == Access(self, l[1])
        n == The(m1[l[1]])
    IN  /\ ~raised(m1)
        /\ n \notin {t[1] : t \in graph} \cup {t[3] : t \in graph}
        /\ n.slug = l[3]
        /\ IF IsNone(l[2])
           THEN m1._graph = graph \cup {<<n, RDF_type, URIRef(l[4])>>}
           ELSE LET owner == The(m1[The(l[2])])
                IN  /\ m1._graph \ graph
                          = {<<n, RDF_type, URIRef(l[4])>>, <<owner, "uco-core:hasFacet", n>>}
                            \cup (IF IsNone(self[The(l[2])])
                                  THEN {<<owner, RDF_type, URIRef(OwnerClass(The(l[2])))>>}
                                  ELSE {})
                    /\ ~IsNone(self[The(l[2])]) => owner = The(self[The(l[2])])

\* the nodes a triple of the graph joins the node to, in either direction
Neighbours(n) ==
    {t[3] : t \in {x \in graph : x[1] = n}} \cup {t[1] : t \in {x \in graph : x[3] = n}}

\* the node is joined to the base object by a triple, or by a relationship node
ConnectedToBase(n) ==
    \E b \in BaseObjects :
        \/ b \in Neighbours(n)
        \/ \E r \in Created("Relationship-") : {n, b} \subseteq Neighbours(r)

\* every facet of the graph is the hasFacet object of its owner, and of no other node
FacetsLinked ==
    \A l \in {x \in LazyNodes : ~IsNone(x[2])} : \A f \in Created(l[3]) :
        /\ self[l[1]] = Some(f)
        /\ {t[1] : t \in {x \in graph : x[2] = "uco-core:hasFacet" /\ x[3] = f}}
              = {The(self[The(l[2])])}

(***************************************************************************)
(* C17.  As claimed: every facet is linked from its owner by hasFacet, and *)
(* at the end of a run the device object and the location object are each  *)
(* connected to the base Output Object.                                    *)
(***************************************************************************)
C17_ConnectedToOwner ==
    /\ FacetsLinked
    /\ pc \in {"mapped", "serialized"} =>
          \A n \in Created("Device-") \cup Created("Location-") : ConnectedToBase(n)

(***************************************************************************)
(* C17, amended.  The first access to a lazily created object or facet     *)
(* creates the node and asserts its type triple; for a facet it also adds  *)
(* the hasFacet triple from the owning object, for the device object and   *)
(* the location object it adds nothing else.  Every later access returns   *)
(* the same node and adds no triple.  Every facet in the graph is linked   *)
(* from its owner; the location object is connected to the base object     *)
(* only by the relationship derived at the end of a run that completes,    *)
(* and the device object is never connected to it.                         *)
(***************************************************************************)
C17_LazyAccess ==
    /\ FacetsLinked
    /\ pc \notin {"main", "raised"} =>
          \A l \in LazyNodes :
              IF ~IsNone(self[l[1]])
              THEN Access(self, l[1]) = self
              ELSE (IsNone(l[2]) \/ The(l[2]) # "_n_observable_object"
                    \/ ~IsNone(self._oo_slug)) => FirstAccessAdds(l)
    /\ \A n \in Created("Device-") :
          /\ ~ConnectedToBase(n)
          /\ Neighbours(n) \subseteq {URIRef("uco-observable:ObservableObject")}
                                     \cup Created("DeviceFacet-")
    /\ \A n \in Created("Location-") :
          /\ self._n_location_object = Some(n)
          /\ pc \in {"mapped", "serialized"} => ConnectedToBase(n)
          /\ pc \notin {"mapped", "serialized", "raised"} => ~ConnectedToBase(n)

\* a finished run with a device object and its facet, linked to each other and not to
\* the base object
C17_Witness ==
    /\ pc = "serialized"
    /\ \E n \in Created("Device-") : \E f \in Created("DeviceFacet-") :
          /\ <<n, "uco-core:hasFacet", f>> \in graph
          /\ ~ConnectedToBase(n)

\* the facet nodes of the graph
Facets == UNION {Created(slug) : slug \in FacetSlugs}

\* the predicates under which a node has a triple besides its type
PropertiesOf(n) == {t[2] : t \in {x \in graph : x[1] = n}} \ {RDF_type}

\* the dump gives the predicate a raw literal
HasRaw(iri) == \E v \in RawOf(iri) : isLiteral(v)

\* the input holds a value that maps to the facet kind
MapsTo(slug) ==
    CASE slug = "ContentDataFacet-" -> HasRaw(IRI_MIMEType) \/ HasRaw(IRI_FileSize)
      [] slug = "FileFacet-" ->
            \E iri \in {IRI_FileAccessDate, IRI_FileInodeChangeDate, IRI_FileModifyDate,
                        IRI_FileName} : HasRaw(iri)
      [] slug = "EXIFFacet-" -> \E iri \in InputIris : StoresEntry(iri)
      [] slug = "DeviceFacet-" ->
            \/ HasRaw(IRI_Make) \/ HasRaw(IRI_Model)
            \/ \E v \in PrintconvOf(IRI_Make) : isLiteral(v)
      [] slug = "RasterPictureFacet-" ->
            \/ Literal("image/jpeg", "") \in RawOf(IRI_MIMEType)
            \/ HasRaw(IRI_ExifImageHeight)
      [] slug = "LatLongCoordinatesFacet-" ->
            \E iri \in {IRI_GPSAltitude, IRI_GPSLatitude, IRI_GPSLongitude} : HasRaw(iri)
      [] slug = "UNIXFilePermissionsFacet-" ->
            \/ PrintconvPermissions # {}
            \/ \E v \in RawPermissions : isdigit(v.lex) /\ int(v.lex).val < 1000

(***************************************************************************)
(* C18.  At the end of every run that completes, every facet node of the   *)
(* graph has a triple besides its type triple, and a facet kind is in the  *)
(* graph only if the input holds a value that maps to it.                  *)
(***************************************************************************)
C18_NoEmptyFacet ==
    pc \in {"mapped", "serialized"} =>
        /\ \A f \in Facets : PropertiesOf(f) # {}
        /\ \A slug \in FacetSlugs : Created(slug) # {} => MapsTo(slug)

\* a finished run over a dump with a file name and nothing else: the file facet is the
\* only facet
C18_Witness ==
    /\ pc = "serialized"
    /\ InputIris = {IRI_FileName}
    /\ Facets = Created("FileFacet-")
    /\ Facets # {}

\* the orders in which the predicates of a set can be taken
Orders(S) ==
    {order \in [1..Cardinality(S) -> S] :
        \A i \in DOMAIN order : \A j \in DOMAIN order : order[i] = order[j] => i = j}

\* the mapper after the loop over the order and the deferred derivations
Outcome(m, order) == derive_remaining_objects(dispatch_in_order(m, order))

\* a term with its generated identifier replaced by what tells the node from the others
\* of its kind in g: for a dictionary entry its keys, for any other node nothing (there
\* is one node of the kind at most), for a facet in deterministic mode its owner's
Canonical(g, x) ==
    IF x.t # "kb" THEN x
    ELSE IF x.uuid.k = "uuid5" THEN [x EXCEPT !.uuid.owner.uuid = "generated"]
    ELSE IF x.slug = "ControlledDictionaryEntry-"
         THEN [x EXCEPT !.uuid = ObjectsOf(g, x, "uco-types:key")]
         ELSE [x EXCEPT !.uuid = "generated"]

CanonicalGraph(g) == {<<Canonical(g, t[1]), t[2], Canonical(g, t[3])>> : t \in g}

\* the loop is about to start
LoopStarts == pc = "dispatch" /\ Len(handled) = 1

(***************************************************************************)
(* C19.  As claimed: when the loop starts, running it over the pending     *)
(* predicates in any order ends as running it in sorted order does: with   *)
(* an error in both cases or in neither, and without an error with the     *)
(* same triples up to generated identifiers.                               *)
(***************************************************************************)
C19_OrderIndependent ==
    LoopStarts =>
        \A order \in Orders(Pending) :
            LET any == Outcome(self, order)
                engine == Outcome(self, todo)
            IN  /\ raised(any) <=> raised(engine)
                /\ ~raised(engine) =>
                      CanonicalGraph(any._graph) = CanonicalGraph(engine._graph)

\* the predicates of the dedicated handlers but Make, FilePermissions and GPSPosition
RawOnly ==
    {IRI_GPSAltitude, IRI_GPSLatitude, IRI_GPSLongitude, IRI_ExifImageHeight,
     IRI_ExifImageWidth, IRI_Model, IRI_MIMEType, IRI_FileAccessDate,
     IRI_FileInodeChangeDate, IRI_FileModifyDate, IRI_FileName, IRI_FileSize}
    \cup IRI_EXIF_GPS

\* the print-converted files that differ from this command line's in what they say of
\* the predicate at most: nothing, another literal, or a reference
OtherPrintconv(iri) ==
    LET rest == IF IsNone(args.print_conv_xml) THEN {}
                ELSE {t \in The(args.print_conv_xml) : t[1] # iri}
    IN  {Some(rest \cup said) :
            said \in {{}, {<<iri, Literal("print-converted", "")>>}, {<<iri, SampleRef>>}}}
        \cup (IF rest = {} THEN {None} ELSE {})

(***************************************************************************)
(* C20.  For every predicate of a dedicated handler other than Make,       *)
(* FilePermissions and Composite GPSPosition that the input mentions, a    *)
(* run over a command line that differs only in the presence or the        *)
(* content of the predicate's print-converted value ends the same way:     *)
(* with the same triples or with no output in both cases.  In particular   *)
(* the run ends as the one where the print-converted value is absent does, *)
(* so the value leaves no triple.                                          *)
(***************************************************************************)
C20_PrintconvSilent ==
    /\ pc = "main" =>
          \A iri \in RawOnly \cap InputIris : \A c \in OtherPrintconv(iri) :
              main([args EXCEPT !.print_conv_xml = c], self.entropy)
                  = main(args, self.entropy)
    /\ pc = "serialized" => out_file \in main(args, self.entropy)

\* a finished run over a file size with both values: the integer of the raw one is in
\* the graph and the print-converted one in no triple
C20_Witness ==
    /\ pc = "serialized"
    /\ RawOf(IRI_FileSize) = {Literal("12345", "")}
    /\ PrintconvOf(IRI_FileSize) = {Literal("12 kB", "")}
    /\ \E t \in graph : t[2] = "uco-observable:sizeInBytes"
    /\ \A t \in graph : t[3] # Literal("12 kB", "")

\* the values stored in the EXIF dictionary
ExifDictionaryValues ==
    IF IsNone(self._exif_dictionary_dict) THEN {}
    ELSE {The(self._exif_dictionary_dict)[key] : key \in ExifDictionaryKeys}

(***************************************************************************)
(* C21.  In every state of a run every value stored in the EXIF dictionary *)
(* is a literal, whatever literals and references the dumps hold; no run   *)
(* ends in the AssertionError of the controlled-dictionary builder, and    *)
(* the step that invokes the builder never ends a run in an error.         *)
(***************************************************************************)
C21_DictionaryValuesLiteral ==
    /\ \A value \in ExifDictionaryValues : isLiteral(value)
    /\ self.exception # Some("AssertionError")
    /\ (pc = "raised" /\ todo = <<>>) =>
          /\ Created("ControlledDictionary-") = {}
          /\ LastHandled \in {IRI_FileSize, IRI_ExifImageHeight, IRI_ExifImageWidth}

\* a finished run over a dump that gives a dictionary predicate a reference and another
\* one a literal: the builder ran, over the literal alone
C21_Witness ==
    /\ pc = "serialized"
    /\ SampleRef \in RawOf(IRI_EXIF_GPSLatitudeRef)
    /\ ExifDictionaryKeys = {"Latitude"}
    /\ Cardinality(Created("ControlledDictionaryEntry-")) = 1

====
